---------------------------- MODULE Spec2Model ----------------------------
(***************************************************************************)
(* A model of the field inference engine of converter_core.py              *)
(* (class PDFConverter).                                                   *)
(*                                                                         *)
(* Strings are sequences of characters; a character is a one-element TLA+  *)
(* string, or the name of a non-ASCII code point ("U2610" is the ballot    *)
(* box, "Gamma" "yuml" "eacute" the three characters of a mis-decoded      *)
(* glyph).  Rectangles are records [x0, y0, x1, y1] of integers.  Python   *)
(* indices are 0-based; sequence indices here are 1-based, so a position   *)
(* index of the model is the program's index plus one, and 0 stands for    *)
(* Python's None where an index is expected.  Scores are fractions         *)
(* <<numerator, denominator>> compared by cross-multiplication.            *)
(***************************************************************************)
EXTENDS Integers, Sequences, FiniteSets, TLC

VARIABLES
    pc,              \* position of the running call
    args,            \* the inputs of the running call
    ret,             \* the value returned (or the per-page results so far)
    form_fields,     \* _detect_fields_ocr: the candidates parsed from the markup
    used_positions,  \* _detect_fields_ocr: the page's used position indices
    fields,          \* _detect_fields_ocr: the descriptors produced so far
    k,               \* _detect_fields_ocr: index of the next candidate
    last,            \* _detect_fields_ocr: what the last iteration did
    i,               \* convert / page loop: number of pages processed
    mistral_pages,   \* convert: the remote OCR pages, or None
    total_fields,    \* convert: the running widget count
    calls,           \* convert: remote OCR invocations, with the page count then
    ran              \* detect_fields: the locators run for each processed page

vars == <<pc, args, ret, form_fields, used_positions, fields, k, last,
          i, mistral_pages, total_fields, calls, ran>>

None == "None"

(***************************************************************************)
(* Bounds of the model.                                                    *)
(***************************************************************************)
MaxFields == 3
MaxPositions == 3
MaxRuns == 3
MaxSegs == 2
MaxPages == 2

(***************************************************************************)
(* Generic helpers.                                                        *)
(***************************************************************************)
Min(a, b) == IF a < b THEN a ELSE b
Max(a, b) == IF a > b THEN a ELSE b
Abs(a) == IF a < 0 THEN -a ELSE a

SeqsUpTo(S, n) == UNION {[1..m -> S] : m \in 0..n}

Range(s) == {s[j] : j \in 1..Len(s)}

RECURSIVE Rep(_, _)
Rep(c, n) == IF n = 0 THEN <<>> ELSE <<c>> \o Rep(c, n - 1)

RECURSIVE Flatten(_)
Flatten(ss) == IF ss = <<>> THEN <<>> ELSE Head(ss) \o Flatten(Tail(ss))

(***************************************************************************)
(* Python str operations on character sequences.                           *)
(***************************************************************************)
UpperChars == <<"A","B","C","D","E","F","G","H","I","J","K","L","M",
                "N","O","P","Q","R","S","T","U","V","W","X","Y","Z",
                "Gamma","Eacute">>
LowerChars == <<"a","b","c","d","e","f","g","h","i","j","k","l","m",
                "n","o","p","q","r","s","t","u","v","w","x","y","z",
                "gamma","eacute">>
Digits == {"0","1","2","3","4","5","6","7","8","9"}
Whitespace == {" ", "\t"}

\* str.lower(), one character
LowerChar(c) ==
    IF \E j \in 1..Len(UpperChars) : UpperChars[j] = c
    THEN LowerChars[CHOOSE j \in 1..Len(UpperChars) : UpperChars[j] = c]
    ELSE c

\* str.lower()
Lower(s) == [j \in 1..Len(s) |-> LowerChar(s[j])]

\* str.rstrip(chars)
RECURSIVE RStripChars(_, _)
RStripChars(s, cs) ==
    IF s # <<>> /\ s[Len(s)] \in cs
    THEN RStripChars(SubSeq(s, 1, Len(s) - 1), cs)
    ELSE s

\* str.lstrip(chars)
RECURSIVE LStripChars(_, _)
LStripChars(s, cs) ==
    IF s # <<>> /\ s[1] \in cs THEN LStripChars(Tail(s), cs) ELSE s

\* str.strip()
Strip(s) == LStripChars(RStripChars(s, Whitespace), Whitespace)

\* s.startswith(p)
StartsWith(s, p) == Len(p) <= Len(s) /\ SubSeq(s, 1, Len(p)) = p

\* sub in s
Contains(sub, s) ==
    \E p \in 1..(Len(s) - Len(sub) + 1) : SubSeq(s, p, p + Len(sub) - 1) = sub

\* s.find(sub) + 1, and 0 when sub does not occur (sub is not empty)
Find(s, sub) ==
    IF Contains(sub, s)
    THEN CHOOSE p \in 1..(Len(s) - Len(sub) + 1) :
            /\ SubSeq(s, p, p + Len(sub) - 1) = sub
            /\ \A q \in 1..(p - 1) : SubSeq(s, q, q + Len(sub) - 1) # sub
    ELSE 0

\* s.split(sep), a sequence of strings (sep is not empty)
RECURSIVE SplitOn(_, _)
SplitOn(s, sep) ==
    LET p == Find(s, sep) IN
    IF p = 0 THEN <<s>>
    ELSE <<SubSeq(s, 1, p - 1)>> \o SplitOn(SubSeq(s, p + Len(sep), Len(s)), sep)

\* s.replace(old, new) for a one-character old
Replace(s, old, new) == [j \in 1..Len(s) |-> IF s[j] = old THEN new ELSE s[j]]

\* set(s.split()): the whitespace-separated words of s
Words(s) ==
    {SubSeq(s, a, b) : <<a, b>> \in
        {<<a, b>> \in (1..Len(s)) \X (1..Len(s)) :
            /\ a <= b
            /\ \A j \in a..b : s[j] \notin Whitespace
            /\ (a = 1 \/ s[a - 1] \in Whitespace)
            /\ (b = Len(s) \/ s[b + 1] \in Whitespace)}}

\* re.sub(r'\s+', ' ', s)
RECURSIVE CollapseWs(_)
CollapseWs(s) ==
    IF s = <<>> THEN <<>>
    ELSE IF s[1] \in Whitespace
         THEN <<" ">> \o CollapseWs(LStripChars(s, Whitespace))
         ELSE <<s[1]>> \o CollapseWs(Tail(s))

(***************************************************************************)
(* fitz.Rect, as the program uses it.                                      *)
(***************************************************************************)
Rect(x0, y0, x1, y1) == [x0 |-> x0, y0 |-> y0, x1 |-> x1, y1 |-> y1]

\* Rect.width and Rect.height: the extent, 0 when the corners are inverted
Width(r) == Max(0, r.x1 - r.x0)
Height(r) == Max(0, r.y1 - r.y0)

\* Rect.is_empty
IsEmpty(r) == r.x0 >= r.x1 \/ r.y0 >= r.y1

\* Rect.intersects: neither is empty and the intersection is not empty
Intersects(a, b) ==
    /\ ~IsEmpty(a)
    /\ ~IsEmpty(b)
    /\ Max(a.x0, b.x0) < Min(a.x1, b.x1)
    /\ Max(a.y0, b.y0) < Min(a.y1, b.y1)

Field(type, rect) == [type |-> type, rect |-> rect]

(***************************************************************************)
(* detect_fields, lines 268-276: the deduplicator.                         *)
(***************************************************************************)
\* a plausible slip: the kind is not compared
IsDupAnyKind(f, unique) ==
    \E j \in 1..Len(unique) : Intersects(f.rect, unique[j].rect)

\* line 273
IsDup(f, unique) ==
    \E j \in 1..Len(unique) :
        f.type = unique[j].type /\ Intersects(f.rect, unique[j].rect)

\* lines 269-276, the loop from element j on
RECURSIVE DedupFrom(_, _, _)
DedupFrom(fs, j, unique) ==
    IF j > Len(fs) THEN unique
    ELSE IF Width(fs[j].rect) <= 0 \/ Height(fs[j].rect) <= 0
         THEN DedupFrom(fs, j + 1, unique)
         ELSE IF ~IsDup(fs[j], unique)
              THEN DedupFrom(fs, j + 1, Append(unique, fs[j]))
              ELSE DedupFrom(fs, j + 1, unique)

Dedup(fs) == DedupFrom(fs, 1, <<>>)


(***************************************************************************)
(* Idle values: every specification below drives a part of the state and   *)
(* leaves the rest at these values.                                        *)
(***************************************************************************)
OcrIdle ==
    /\ form_fields = <<>>
    /\ used_positions = {}
    /\ fields = <<>>
    /\ k = 0
    /\ last = None

ConvertIdle ==
    /\ i = 0
    /\ mistral_pages = None
    /\ total_fields = 0
    /\ calls = <<>>
    /\ ran = <<>>

OcrVars == <<form_fields, used_positions, fields, k, last>>
ConvertVars == <<i, mistral_pages, total_fields, calls, ran>>

(***************************************************************************)
(* The deduplicator on bounded inputs.                                     *)
(***************************************************************************)
DedupRects ==
    { Rect(0, 0, 10, 10),     \* overlaps the next one
      Rect(5, 5, 15, 15),
      Rect(10, 0, 20, 10),    \* touches the first, overlaps the second
      Rect(0, 0, 0, 10),      \* zero width
      Rect(0, 10, 10, 0),     \* negative height
      Rect(30, 30, 40, 40) }  \* apart from all

DedupFields == {Field(t, r) : t \in {"checkbox", "text"}, r \in DedupRects}

InitDedup ==
    /\ pc = "dedup_call"
    /\ args \in SeqsUpTo(DedupFields, MaxFields)
    /\ ret = None
    /\ OcrIdle
    /\ ConvertIdle

CallDedup ==
    /\ pc = "dedup_call"
    /\ ret' = Dedup(args)
    /\ pc' = "dedup_ret"
    /\ UNCHANGED <<args, OcrVars, ConvertVars>>

NextDedup == CallDedup

SpecDedup == InitDedup /\ [][NextDedup]_vars

\* the elements of s at the indices in K, in order
SubseqAt(s, K) ==
    LET F[j \in 0..Len(s)] ==
            IF j = 0 THEN <<>>
            ELSE IF j \in K THEN Append(F[j - 1], s[j]) ELSE F[j - 1]
    IN F[Len(s)]

Degenerate(r) == r.x1 - r.x0 <= 0 \/ r.y1 - r.y0 <= 0

\* C1: the list detect_fields returns holds no descriptor of width <= 0 or
\* height <= 0; a non-degenerate descriptor is retained iff no previously
\* retained descriptor of the same kind intersects it; so no two returned
\* descriptors of one kind intersect, production order is kept, and an
\* overlapping checkbox and text descriptor are both kept.
C1_Dedup ==
    pc = "dedup_ret" =>
        /\ \A j \in 1..Len(ret) : ~Degenerate(ret[j].rect)
        /\ \E K \in SUBSET (1..Len(args)) :
            /\ ret = SubseqAt(args, K)
            /\ \A j \in 1..Len(args) :
                j \in K <=>
                    /\ ~Degenerate(args[j].rect)
                    /\ ~\E m \in K :
                          /\ m < j
                          /\ args[m].type = args[j].type
                          /\ Intersects(args[m].rect, args[j].rect)
        /\ \A a, b \in 1..Len(ret) :
            (a < b /\ ret[a].type = ret[b].type)
                => ~Intersects(ret[a].rect, ret[b].rect)
        /\ \A a, b \in 1..Len(args) :
            (/\ Len(args) = 2
             /\ a < b
             /\ args[a].type # args[b].type
             /\ ~Degenerate(args[a].rect)
             /\ ~Degenerate(args[b].rect)) => ret = args

\* a checkbox and a text descriptor that overlap are both returned, and a
\* second overlapping descriptor of one of the two kinds has been dropped
C1_Witness ==
    /\ pc = "dedup_ret"
    /\ Len(args) = 3
    /\ Len(ret) = 2
    /\ ret[1].type # ret[2].type
    /\ Intersects(ret[1].rect, ret[2].rect)
    /\ \A j \in 1..3 : ~Degenerate(args[j].rect)

(***************************************************************************)
(* _find_label_position, lines 115-150.                                    *)
(***************************************************************************)
\* a > b for fractions <<numerator, denominator>> with positive denominators
ScoreGt(a, b) == a[1] * b[2] > b[1] * a[2]

\* line 117
LabelClean(label_text) == Lower(Strip(RStripChars(label_text, {":", "*"})))

\* line 129
OcrClean(text) == Strip(Lower(text))

\* a plausible slip: >= keeps the last of equally scored positions
BetterScoreOrEqual(score, best_score) == ~ScoreGt(best_score, score)

\* lines 134 and 144: score > best_score
BetterScore(score, best_score) == ScoreGt(score, best_score)

\* lines 129-146: one iteration of the loop, for a position that is not used
ScorePosition(st, idx, text, label_clean) ==
    LET ocr_clean == OcrClean(text)
        sub == Contains(label_clean, ocr_clean) \/ Contains(ocr_clean, label_clean)
        score1 == <<Len(label_clean), Max(Len(ocr_clean), 1)>>
        st1 == IF sub /\ BetterScore(score1, st.best_score)
               THEN [best_match |-> idx, best_score |-> score1]
               ELSE st
        label_words == Words(label_clean)
        common == label_words \cap Words(ocr_clean)
        score2 == <<Cardinality(common), Cardinality(label_words)>>
    IN  IF Cardinality(common) >= 1 /\ Cardinality(label_words) > 0
           /\ BetterScore(score2, st1.best_score)
        THEN [best_match |-> idx, best_score |-> score2]
        ELSE st1

\* a plausible slip: the used set is not consulted
SkipPositionNever(idx, used) == FALSE

\* line 126
SkipPosition(idx, used) == idx \in used

\* lines 125-146: the loop from position idx on
RECURSIVE ScanPositions(_, _, _, _, _)
ScanPositions(st, idx, ocr_positions, used, label_clean) ==
    IF idx > Len(ocr_positions) THEN st
    ELSE IF SkipPosition(idx, used)
         THEN ScanPositions(st, idx + 1, ocr_positions, used, label_clean)
         ELSE ScanPositions(
                 ScorePosition(st, idx, ocr_positions[idx].text, label_clean),
                 idx + 1, ocr_positions, used, label_clean)

\* lines 115-150; the index of the match (its position is ocr_positions[index]),
\* or 0 for None
FindLabelPosition(label_text, ocr_positions, used) ==
    LET label_clean == LabelClean(label_text) IN
    IF Len(label_clean) < 2 THEN 0
    ELSE LET st == ScanPositions([best_match |-> 0, best_score |-> <<0, 1>>],
                                 1, ocr_positions, used, label_clean)
         IN  IF st.best_match # 0 /\ ScoreGt(st.best_score, <<3, 10>>)
             THEN st.best_match
             ELSE 0

(***************************************************************************)
(* The fuzzy matcher on bounded inputs.                                    *)
(***************************************************************************)
S_PatientName == <<"P","a","t","i","e","n","t"," ","N","a","m","e">>
S_DateOfBirth == <<"D","a","t","e"," ","o","f"," ","B","i","r","t","h">>
S_Name == <<"N","a","m","e">>

MatchLabels ==
    { S_PatientName,
      S_Name \o <<" ", "*", ":">>,
      <<"a", ":">>,
      <<"a", "b">>,
      <<"a", " ", "b", " ", "c", " ", "d">> }

MatchTexts ==
    { <<>>,
      S_PatientName \o <<":">>,
      S_DateOfBirth,
      S_Name,
      <<" ">> \o Lower(S_PatientName),
      <<"D", " ", "x", "a", "b", "x", "x", "x">> }

Position(text, rect) == [text |-> text, rect |-> rect]

MatchPositions == {Position(t, Rect(0, 0, 10, 10)) : t \in MatchTexts}

InitMatch ==
    /\ pc = "match_call"
    /\ \E label \in MatchLabels, ps \in SeqsUpTo(MatchPositions, MaxPositions) :
         \E used \in SUBSET (1..Len(ps)) :
            args = [label |-> label, ocr_positions |-> ps, used |-> used]
    /\ ret = None
    /\ OcrIdle
    /\ ConvertIdle

CallFindLabelPosition ==
    /\ pc = "match_call"
    /\ ret' = FindLabelPosition(args.label, args.ocr_positions, args.used)
    /\ pc' = "match_ret"
    /\ UNCHANGED <<args, OcrVars, ConvertVars>>

NextMatch == CallFindLabelPosition

SpecMatch == InitMatch /\ [][NextMatch]_vars

\* the claimed score of a position: the larger of the substring score and the
\* word-overlap score, 0 when neither applies
FracMax(s1, s2) == IF ScoreGt(s2, s1) THEN s2 ELSE s1

ClaimedSubScore(lc, oc) ==
    IF Contains(lc, oc) \/ Contains(oc, lc)
    THEN <<Len(lc), Max(Len(oc), 1)>> ELSE <<0, 1>>

ClaimedWordScore(lw, cw) ==
    IF cw # {} THEN <<Cardinality(cw), Cardinality(lw)>> ELSE <<0, 1>>

ClaimedScore(lc, text) ==
    CHOOSE r \in
        { FracMax(ClaimedSubScore(lc, oc),
                  CHOOSE w \in {ClaimedWordScore(lw, cw) :
                                   cw \in {lw \cap Words(oc)}} : TRUE) :
            oc \in {Strip(Lower(text))}, lw \in {Words(lc)} } : TRUE

\* the lowest index among the highest-scored ones, if its score is above 0.3
ClaimedPick(sc, free) ==
    LET top == {a \in free : \A b \in free : ~ScoreGt(sc[b], sc[a])}
        first == CHOOSE a \in top : \A b \in top : a <= b
    IN  IF ScoreGt(sc[first], <<3, 10>>) THEN first ELSE 0

ClaimedMatch(label, ps, used) ==
    LET free == (1..Len(ps)) \ used IN
    CHOOSE r \in
        { IF Len(lc) < 2 \/ free = {} THEN 0
          ELSE CHOOSE q \in { ClaimedPick(sc, free) :
                    sc \in {[a \in free |-> ClaimedScore(lc, ps[a].text)]} } : TRUE :
            lc \in {Lower(Strip(RStripChars(label, {":", "*"})))} } : TRUE

\* C5: _find_label_position returns none when the normalized label is shorter
\* than 2; otherwise it returns the lowest-index unused position attaining the
\* highest score (the larger of substring and word-overlap score), if that
\* score is strictly greater than 0.3, else none.  "Patient Name" is matched
\* to "Patient Name:" and is not matched to "Date of Birth".
C5_FindLabelPosition ==
    pc = "match_ret" =>
        /\ ret = ClaimedMatch(args.label, args.ocr_positions, args.used)
        /\ (/\ args.label = S_PatientName
            /\ args.used = {}
            /\ Len(args.ocr_positions) = 1)
           => /\ args.ocr_positions[1].text = S_PatientName \o <<":">> => ret = 1
              /\ args.ocr_positions[1].text = S_DateOfBirth => ret = 0

\* a later position scores as high as the returned one, and the best score
\* of another call is positive but not above 0.3
C5_Witness ==
    /\ pc = "match_ret"
    /\ ret # 0
    /\ \E b \in ((ret + 1)..Len(args.ocr_positions)) \ args.used :
          LET lc == LabelClean(args.label) IN
          /\ ~ScoreGt(ClaimedScore(lc, args.ocr_positions[ret].text),
                      ClaimedScore(lc, args.ocr_positions[b].text))
          /\ args.ocr_positions[b].text # args.ocr_positions[ret].text

C5_WitnessRejected ==
    /\ pc = "match_ret"
    /\ ret = 0
    /\ Len(LabelClean(args.label)) >= 2
    /\ \E b \in (1..Len(args.ocr_positions)) \ args.used :
          ScoreGt(ClaimedScore(LabelClean(args.label), args.ocr_positions[b].text),
                  <<0, 1>>)

\* C10: no position scores above 1, so an unused position whose text equals
\* the normalized label is never passed over: the returned position's text
\* equals the normalized label whenever such a position exists.
C10_ExactMatchWins ==
    pc = "match_ret" =>
        LET lc == LabelClean(args.label)
            free == (1..Len(args.ocr_positions)) \ args.used
        IN  (Len(lc) >= 2 /\ \E a \in free : OcrClean(args.ocr_positions[a].text) = lc)
            => /\ \A a \in free :
                    ~ScoreGt(ClaimedScore(lc, args.ocr_positions[a].text), <<1, 1>>)
               /\ ret # 0
               /\ OcrClean(args.ocr_positions[ret].text) = lc

(***************************************************************************)
(* _find_underscore_fields, lines 211-226.                                 *)
(***************************************************************************)
\* the sort key (r.y0, r.x0), compared as Python compares tuples
KeyLess(a, b) == a.y0 < b.y0 \/ (a.y0 = b.y0 /\ a.x0 < b.x0)

\* insertion of r after the elements whose key is not greater (a stable sort)
RECURSIVE InsertSorted(_, _)
InsertSorted(sorted, r) ==
    IF sorted = <<>> THEN <<r>>
    ELSE IF KeyLess(r, Head(sorted)) THEN <<r>> \o sorted
    ELSE <<Head(sorted)>> \o InsertSorted(Tail(sorted), r)

\* line 217: sorted(instances, key=lambda r: (r.y0, r.x0))
RECURSIVE SortedByTopLeft(_)
SortedByTopLeft(instances) ==
    IF instances = <<>> THEN <<>>
    ELSE InsertSorted(SortedByTopLeft(SubSeq(instances, 1, Len(instances) - 1)),
                      instances[Len(instances)])

\* line 218: the condition under which inst joins the last merged rectangle
MergesInto(inst, m) == Abs(inst.y0 - m.y0) < 3 /\ inst.x0 < m.x1 + 5

\* lines 217-223: the loop from element j of the sorted instances on
RECURSIVE MergeFrom(_, _, _)
MergeFrom(sorted, j, merged) ==
    IF j > Len(sorted) THEN merged
    ELSE LET inst == sorted[j]
             n == Len(merged)
         IN  IF merged # <<>> /\ MergesInto(inst, merged[n])
             THEN MergeFrom(sorted, j + 1,
                    [merged EXCEPT ![n] =
                        Rect(Min(merged[n].x0, inst.x0), Min(merged[n].y0, inst.y0),
                             Max(merged[n].x1, inst.x1), Max(merged[n].y1, inst.y1))])
             ELSE MergeFrom(sorted, j + 1, Append(merged, inst))

\* lines 211-226; instances is what page.search_for("___") returned
FindUnderscoreFields(instances) ==
    IF instances = <<>> THEN <<>>
    ELSE LET merged == MergeFrom(SortedByTopLeft(instances), 1, <<>>)
         IN  [j \in 1..Len(merged) |->
                Field("text", Rect(merged[j].x0, merged[j].y0,
                                   merged[j].x1, merged[j].y1 + 2))]

(***************************************************************************)
(* The underscore-run merger on bounded inputs.                            *)
(***************************************************************************)
UnderscoreRuns ==
    { Rect(0, 10, 20, 12),
      Rect(24, 10, 40, 12),     \* 4 right of the first
      Rect(26, 10, 40, 12),     \* 6 right of the first
      Rect(24, 12, 44, 14),     \* 4 right of the first, 2 lower
      Rect(24, 13, 40, 15),     \* 4 right of the first, 3 lower
      Rect(100, 10, 150, 12),   \* far right on the first's line
      Rect(0, 11, 20, 13) }     \* the first, 1 lower

InitMerge ==
    /\ pc = "merge_call"
    /\ args \in SeqsUpTo(UnderscoreRuns, MaxRuns)
    /\ ret = None
    /\ OcrIdle
    /\ ConvertIdle

CallFindUnderscoreFields ==
    /\ pc = "merge_call"
    /\ ret' = FindUnderscoreFields(args)
    /\ pc' = "merge_ret"
    /\ UNCHANGED <<args, OcrVars, ConvertVars>>

NextMerge == CallFindUnderscoreFields

SpecMerge == InitMerge /\ [][NextMerge]_vars

\* the run r lies in the emitted rectangle m (whose bottom was extended by 2)
RunInside(r, m) ==
    m.x0 <= r.x0 /\ r.x1 <= m.x1 /\ m.y0 <= r.y0 /\ r.y1 + 2 <= m.y1

\* C6: an instance is merged iff its top is less than 3 from the merged
\* rectangle's top and its left edge is within 5 of the merged rectangle's
\* right edge; two runs whose horizontal gap is 6 or more are never merged
\* into one rectangle, on whichever side the next run lies (unless other
\* runs of the rectangle fill the gap); every merged rectangle is one Text
\* descriptor spanning its runs with the bottom edge extended by 2.
C6_GapNeverMerged ==
    pc = "merge_ret" =>
        /\ \A j \in 1..Len(ret) : ret[j].type = "text"
        /\ \A j \in 1..Len(args) : \E m \in 1..Len(ret) : RunInside(args[j], ret[m].rect)
        /\ \A m \in 1..Len(ret) : \A a, b \in 1..Len(args) :
            (/\ RunInside(args[a], ret[m].rect)
             /\ RunInside(args[b], ret[m].rect)
             /\ args[b].x0 - args[a].x1 >= 6)
            => \E c \in 1..Len(args) :
                  /\ RunInside(args[c], ret[m].rect)
                  /\ args[c].x0 - args[a].x1 < 6
                  /\ args[c].x1 > args[a].x1

(***************************************************************************)
(* _extract_form_fields_from_markdown, lines 74-113.                       *)
(***************************************************************************)
\* line 16: the plain glyphs, by code point
CHECKBOX_CHARS ==
    << <<"U25A1">>, <<"U2610">>, <<"U2611">>, <<"U2612">>,
       <<"U25A2">>, <<"U25FB">>, <<"U25EF">>, <<"U25A0">> >>

\* line 17: the mis-decoded glyphs, three characters each
CHECKBOX_ENCODED ==
    << <<"Gamma", "yuml", "eacute">>, <<"Gamma", "yuml", "iacute">>,
       <<"Gamma", "ucirc", "iacute">>, <<"Gamma", "ucirc", "aacute">>,
       <<"Gamma", "yuml", "Eacute">> >>

\* line 79
ALL_CB == CHECKBOX_CHARS \o CHECKBOX_ENCODED

Candidate(type, label) == [type |-> type, label |-> label]

\* lines 96-98: cut the option before each glyph it holds, glyph j on
RECURSIVE CutAtGlyphs(_, _)
CutAtGlyphs(option, j) ==
    IF j > Len(ALL_CB) THEN option
    ELSE IF Contains(ALL_CB[j], option)
         THEN CutAtGlyphs(Strip(SplitOn(option, ALL_CB[j])[1]), j + 1)
         ELSE CutAtGlyphs(option, j + 1)

\* a plausible slip: a one-character option is kept
KeepOptionFromOne(option) == option # <<>> /\ Len(option) >= 1 /\ Len(option) < 60

\* line 100
KeepOption(option) == option # <<>> /\ Len(option) > 1 /\ Len(option) < 60

\* lines 94-101: the candidate, if any, of one part after a glyph
OptionCandidate(part) ==
    LET option == Strip(CollapseWs(CutAtGlyphs(Strip(part), 1))) IN
    IF KeepOption(option)
    THEN <<Candidate("checkbox", SubSeq(option, 1, Min(30, Len(option))))>>
    ELSE <<>>

\* lines 93-101: the parts after the first, part j on
RECURSIVE PartCandidates(_, _)
PartCandidates(parts, j) ==
    IF j > Len(parts) THEN <<>>
    ELSE OptionCandidate(parts[j]) \o PartCandidates(parts, j + 1)

\* lines 90-101: the glyphs in the order of ALL_CB, glyph j on
RECURSIVE CheckboxCandidates(_, _)
CheckboxCandidates(line, j) ==
    IF j > Len(ALL_CB) THEN <<>>
    ELSE (IF Contains(ALL_CB[j], line)
          THEN PartCandidates(SplitOn(line, ALL_CB[j]), 2)
          ELSE <<>>) \o CheckboxCandidates(line, j + 1)

\* line 104: the character class [A-Za-z\s/\'()\[\]#*\d.]
IsLabelChar(c) ==
    \/ c \in Range(SubSeq(UpperChars, 1, 26))
    \/ c \in Range(SubSeq(LowerChars, 1, 26))
    \/ c \in Whitespace
    \/ c \in Digits
    \/ c \in {"/", "'", "(", ")", "[", "]", "#", "*", "."}

\* line 104: where the match ending at the colon at q starts: the class
\* characters before the colon, as far left as they go (q when there is none)
RECURSIVE MatchStart(_, _)
MatchStart(line, q) ==
    IF q > 1 /\ IsLabelChar(line[q - 1]) THEN MatchStart(line, q - 1) ELSE q

\* lines 108-109
SkipKeywords ==
    { <<"N", "O", "T", "E", ":">>,
       <<"-", "-", "-">>,
       <<"h", "t", "t", "p">>,
       <<"s", "f", "h", "p", ".", "o", "r", "g">>,
       <<"1", "(">>,
       <<"M", "e", "t", "h", "o", "d", "s", ":">>,
       <<"S", "e", "r", "v", "i", "c", "e", "s", ":">>,
       <<"v", "a", "l", "u", "e", "s", ".">>,
       <<"b", "e", "l", "o", "w", ":">>,
       <<"s", "e", "r", "v", "i", "c", "e", ".">> }

\* line 110
KeepLabel(label) ==
    Len(label) < 40 /\ ~\E sk \in SkipKeywords : Contains(sk, label)

\* lines 104-111: the matches of the pattern, each ending at a colon, from
\* character q on
RECURSIVE TextCandidates(_, _)
TextCandidates(line, q) ==
    IF q > Len(line) THEN <<>>
    ELSE IF line[q] = ":" /\ MatchStart(line, q) < q
         THEN LET label == Strip(SubSeq(line, MatchStart(line, q), q)) IN
              (IF KeepLabel(label) THEN <<Candidate("text", label)>> ELSE <<>>)
                 \o TextCandidates(line, q + 1)
         ELSE TextCandidates(line, q + 1)

\* lines 85-111: one line of the markup
LineCandidates(raw) ==
    LET line == Strip(raw) IN
    IF line = <<>> \/ StartsWith(line, <<"-", "-", "-">>) THEN <<>>
    ELSE CheckboxCandidates(line, 1) \o TextCandidates(line, 1)

\* lines 84-111: the lines in order, line j on
RECURSIVE LinesCandidates(_, _)
LinesCandidates(lines, j) ==
    IF j > Len(lines) THEN <<>>
    ELSE LineCandidates(lines[j]) \o LinesCandidates(lines, j + 1)

\* lines 74-113
ExtractFormFieldsFromMarkdown(markdown_text) ==
    LinesCandidates(SplitOn(Replace(markdown_text, "|", "\n"), <<"\n">>), 1)

(***************************************************************************)
(* The markdown field extractor on bounded markup lines: a prefix followed *)
(* by up to MaxSegs segments, each a checkbox glyph and the text after it. *)
(***************************************************************************)
S_Yes == <<"Y", "e", "s">>
S_No == <<"N", "o">>
G_Ballot == <<"U2610">>
G_Encoded == <<"Gamma", "yuml", "eacute">>

SegGlyphs == {G_Ballot, G_Encoded}

SegBodies ==
    { <<>>,
      <<" ">> \o S_Yes \o <<" ">>,
      <<" ">> \o S_No,
      <<"Y">>,
      <<" ", "a", " ", "\t", " ", "b", " ">>,
      Rep("a", 30),
      Rep("a", 31),
      <<" ">> \o Rep("a", 59),
      Rep("a", 60) }

Segments == {g \o b : g \in SegGlyphs, b \in SegBodies}

LinePrefixes == { <<>>, <<"-", "-", "-">>, <<"Q", ":", " ">> }

MarkupLines ==
    {pre \o Flatten(segs) : pre \in LinePrefixes, segs \in SeqsUpTo(Segments, MaxSegs)}

InitMarkdown ==
    /\ pc = "extract_call"
    /\ args \in MarkupLines
    /\ ret = None
    /\ OcrIdle
    /\ ConvertIdle

CallExtractFormFields ==
    /\ pc = "extract_call"
    /\ ret' = ExtractFormFieldsFromMarkdown(args)
    /\ pc' = "extract_ret"
    /\ UNCHANGED <<args, OcrVars, ConvertVars>>

NextMarkdown == CallExtractFormFields

SpecMarkdown == InitMarkdown /\ [][NextMarkdown]_vars

\* the occurrences <<start, glyph number>> of checkbox glyphs in a line
GlyphOccurrences(line) ==
    {o \in (1..Len(line)) \X (1..Len(ALL_CB)) :
        /\ o[1] + Len(ALL_CB[o[2]]) - 1 <= Len(line)
        /\ SubSeq(line, o[1], o[1] + Len(ALL_CB[o[2]]) - 1) = ALL_CB[o[2]]}

\* the trailing segment of an occurrence: the text up to the next glyph or
\* the end of the line, whitespace collapsed and trimmed
TrailingSegment(line, o) ==
    LET from == o[1] + Len(ALL_CB[o[2]])
        later == {x[1] : x \in {y \in GlyphOccurrences(line) : y[1] >= from}}
        to == IF later = {} THEN Len(line)
              ELSE (CHOOSE a \in later : \A b \in later : a <= b) - 1
    IN  Strip(CollapseWs(SubSeq(line, from, to)))

CheckboxLabels(ff) ==
    LET cb == SelectSeq(ff, LAMBDA f : f.type = "checkbox")
    IN  [j \in 1..Len(cb) |-> cb[j].label]

First30(s) == SubSeq(s, 1, Min(30, Len(s)))

\* the labels of ff are, counted with multiplicity, the values of Label on
\* the occurrences whose trailing segment has a length in (1, 60)
OnePerOccurrence(line, labels, Label(_)) ==
    LET segs == {<<o, TrailingSegment(line, o)>> : o \in GlyphOccurrences(line)}
        kept == {x \in segs : Len(x[2]) > 1 /\ Len(x[2]) < 60}
    IN  /\ Len(labels) = Cardinality(kept)
        /\ \A l \in Range(labels) \cup {Label(x[2]) : x \in kept} :
              Cardinality({j \in 1..Len(labels) : labels[j] = l})
                 = Cardinality({x \in kept : Label(x[2]) = l})

SkippedLine(line) == Strip(line) = <<>> \/ StartsWith(Strip(line), <<"-", "-", "-">>)

\* C7 as stated: for any markup line (one the extractor does not skip as
\* blank or as a horizontal rule) the extractor yields exactly one Checkbox
\* candidate per glyph occurrence whose trailing segment has a length
\* strictly between 1 and 60, and the candidate's label is that segment.
C7_LabelIsSegment ==
    (pc = "extract_ret" /\ ~SkippedLine(args)) =>
        OnePerOccurrence(Strip(args), CheckboxLabels(ret), LAMBDA seg : seg)

\* C7, amended: for any markup line that is not blank and does not start
\* with "---", the extractor yields exactly one Checkbox candidate per glyph
\* occurrence whose trailing segment has a length strictly between 1 and 60,
\* and the candidate's label is the first 30 characters of that segment; a
\* blank line or one starting with "---" yields nothing; the line
\* "[ballot] Yes [ballot] No" yields exactly the labels "Yes" and "No".
C7_LabelIsFirst30 ==
    pc = "extract_ret" =>
        /\ SkippedLine(args) => ret = <<>>
        /\ ~SkippedLine(args) =>
              OnePerOccurrence(Strip(args), CheckboxLabels(ret), First30)
        /\ args = G_Ballot \o <<" ">> \o S_Yes \o <<" ">> \o G_Ballot \o <<" ">> \o S_No
              => ret = <<Candidate("checkbox", S_Yes), Candidate("checkbox", S_No)>>

\* two glyphs of different alphabets on one line, one with a segment longer
\* than 30 and one with a one-character segment
C7_Witness ==
    /\ pc = "extract_ret"
    /\ args = G_Encoded \o <<" ">> \o Rep("a", 59) \o G_Ballot \o <<"Y">>
    /\ ret = <<Candidate("checkbox", Rep("a", 30))>>

(***************************************************************************)
(* _detect_fields_ocr, lines 152-200.                                      *)
(***************************************************************************)
\* line 173
CheckboxRect(tp) ==
    Rect(tp.rect.x0 - 12, tp.rect.y0, tp.rect.x0 - 1, tp.rect.y1)

\* lines 187-190: the bound after the positions from j on, starting at x1
RECURSIVE NeighbourBound(_, _, _, _)
NeighbourBound(field_x1, j, idx, ocr_positions) ==
    IF j > Len(ocr_positions) THEN field_x1
    ELSE LET other == ocr_positions[j]
             tp == ocr_positions[idx]
         IN  IF /\ j # idx
                /\ Abs(other.rect.y0 - tp.rect.y0) < 5
                /\ other.rect.x0 > tp.rect.x1 + 5
             THEN NeighbourBound(Min(field_x1, other.rect.x0 - 2),
                                 j + 1, idx, ocr_positions)
             ELSE NeighbourBound(field_x1, j + 1, idx, ocr_positions)

\* a plausible slip: the lower clamp is missing
ClampX1NoFloor(field_x0, field_x1) == Min(field_x1, field_x0 + 200)

\* line 192
ClampX1(field_x0, field_x1) == Max(field_x0 + 20, Min(field_x1, field_x0 + 200))

\* lines 184-198: the descriptors a matched text candidate adds
TextFields(idx, ocr_positions, page_width) ==
    LET tp == ocr_positions[idx]
        field_x0 == tp.rect.x1 + 2
        field_x1 == ClampX1(field_x0,
                            NeighbourBound(page_width - 20, 1, idx, ocr_positions))
    IN  IF field_x1 - field_x0 > 15
        THEN <<Field("text", Rect(field_x0, tp.rect.y0, field_x1, tp.rect.y1))>>
        ELSE <<>>

\* lines 166-198: one iteration of the loop; match is the matched index or 0
DetectStep(field_info, ocr_positions, page_width, used, fs) ==
    LET match == FindLabelPosition(field_info.label, ocr_positions, used) IN
    IF field_info.type = "checkbox"
    THEN IF match # 0
         THEN [used |-> used \cup {match}, match |-> match,
               fields |-> Append(fs, Field("checkbox",
                                           CheckboxRect(ocr_positions[match])))]
         ELSE [used |-> used, match |-> 0, fields |-> fs]
    ELSE IF field_info.type = "text"
    THEN IF match # 0
         THEN [used |-> used \cup {match}, match |-> match,
               fields |-> fs \o TextFields(match, ocr_positions, page_width)]
         ELSE [used |-> used, match |-> 0, fields |-> fs]
    ELSE [used |-> used, match |-> 0, fields |-> fs]

\* lines 165-198: the loop from candidate j on
RECURSIVE DetectFrom(_, _, _, _, _, _)
DetectFrom(ff, j, ocr_positions, page_width, used, fs) ==
    IF j > Len(ff) THEN fs
    ELSE LET st == DetectStep(ff[j], ocr_positions, page_width, used, fs)
         IN  DetectFrom(ff, j + 1, ocr_positions, page_width, st.used, st.fields)

\* lines 152-200; ocr_positions is what _ocr_page_positions(page) returned
DetectFieldsOcr(page_markdown, ocr_positions, page_width) ==
    DetectFrom(ExtractFormFieldsFromMarkdown(page_markdown), 1,
               ocr_positions, page_width, {}, <<>>)

(***************************************************************************)
(* The OCR-assisted pipeline, candidate by candidate, on up to MaxPages    *)
(* pages with bounded markup and OCR positions.                            *)
(***************************************************************************)
S_NameColon == S_Name \o <<":">>
S_Date == <<"D", "a", "t", "e">>
G_Checked == <<"U2611">>

OcrMarkups ==
    { G_Ballot \o <<" ">> \o S_Yes \o <<" ">> \o G_Ballot \o <<" ">> \o S_No,
      S_NameColon \o <<"\n">> \o G_Ballot \o <<" ">> \o S_Yes,
      G_Checked \o <<" ">> \o S_No \o <<" ">> \o G_Ballot \o <<" ">> \o S_Yes,
      S_NameColon \o <<" ">> \o G_Ballot \o <<" ">> \o S_Yes
          \o <<" ">> \o G_Ballot \o <<" ">> \o S_Yes,
      S_Date \o <<":", " ", "|", " ">> \o S_NameColon }

OcrPositions ==
    { Position(S_NameColon, Rect(10, 10, 40, 20)),
      Position(S_Yes, Rect(43, 10, 48, 20)),   \* 3 right of the first
      Position(S_No, Rect(50, 12, 62, 22)),    \* 10 right of the first, 2 lower
      Position(S_Yes, Rect(50, 50, 60, 60)),   \* on another line
      Position(S_Date, Rect(95, 10, 99, 20)) } \* at the right margin

PageWidths == {100, 300}

NoLast == [type |-> None, idx |-> 0, used_before |-> {}, nfields_before |-> 0,
           bound |-> <<>>]

InitOcr ==
    /\ pc = "ocr_idle"
    /\ args = None
    /\ ret = None
    /\ OcrIdle
    /\ ConvertIdle

\* lines 154-163, for the next page
OcrBegin ==
    /\ pc = "ocr_idle"
    /\ i < MaxPages
    /\ \E md \in OcrMarkups :
         \E ff \in {ExtractFormFieldsFromMarkdown(md)} :
            \E ps \in SeqsUpTo(OcrPositions, MaxPositions), w \in PageWidths :
               /\ args' = [page_markdown |-> md, ocr_positions |-> ps,
                           page_width |-> w]
               /\ form_fields' = ff
    /\ used_positions' = {}
    /\ fields' = <<>>
    /\ k' = 1
    /\ last' = NoLast
    /\ ret' = None
    /\ pc' = "ocr_loop"
    /\ UNCHANGED ConvertVars

\* lines 165-198, one candidate
OcrIterate ==
    /\ pc = "ocr_loop"
    /\ k <= Len(form_fields)
    /\ \E st \in {DetectStep(form_fields[k], args.ocr_positions, args.page_width,
                             used_positions, fields)} :
           /\ used_positions' = st.used
           /\ fields' = st.fields
           /\ last' = [type |-> form_fields[k].type, idx |-> st.match,
                       used_before |-> used_positions,
                       nfields_before |-> Len(fields),
                       bound |-> IF st.match # 0 THEN Append(last.bound, st.match)
                                 ELSE last.bound]
    /\ k' = k + 1
    /\ UNCHANGED <<pc, args, ret, form_fields, ConvertVars>>

\* line 200, then lines 268-276 and 297-306 of the callers: the page's
\* descriptors are returned, deduplicated and counted; its locals are gone
OcrReturn ==
    /\ pc = "ocr_loop"
    /\ k > Len(form_fields)
    /\ ret' = None
    /\ total_fields' = total_fields + Len(Dedup(fields))
    /\ i' = i + 1
    /\ pc' = "ocr_idle"
    /\ args' = None
    /\ form_fields' = <<>>
    /\ used_positions' = {}
    /\ fields' = <<>>
    /\ k' = 0
    /\ last' = None
    /\ UNCHANGED <<mistral_pages, calls, ran>>

NextOcr == OcrBegin \/ OcrIterate \/ OcrReturn

SpecOcr == InitOcr /\ [][NextOcr]_vars

\* C2: during the OCR-assisted detection of one page each position index
\* is bound to at most one field: _find_label_position never returns an index
\* that is already used, every returned index is in the used set before the
\* next candidate is matched, and the used set starts empty for each page and
\* only grows.
C2_PositionBoundOnce ==
    pc = "ocr_loop" =>
        /\ k = 1 => used_positions = {}
        /\ last.idx # 0 =>
              /\ last.idx \notin last.used_before
              /\ used_positions = last.used_before \cup {last.idx}
        /\ last.idx = 0 => used_positions = last.used_before
        /\ \A a, b \in 1..Len(last.bound) : a # b => last.bound[a] # last.bound[b]
        /\ Range(last.bound) = used_positions

\* on a later page, two candidates with the same label have been matched:
\* the second is bound to another position than the first
C2_Witness ==
    /\ pc = "ocr_loop"
    /\ i >= 1
    /\ Len(last.bound) >= 2
    /\ k > 2
    /\ form_fields[k - 1].label = form_fields[k - 2].label
    /\ last.idx # 0
    /\ last.used_before # {}

\* the checkbox labels of a line in the order of the glyphs, from character
\* p on
RECURSIVE LeftToRightLabels(_, _)
LeftToRightLabels(line, p) ==
    IF p > Len(line) THEN <<>>
    ELSE LET here == {o \in GlyphOccurrences(line) : o[1] = p}
             segs == {TrailingSegment(line, o) : o \in here}
             seg == CHOOSE x \in segs : TRUE
         IN  (IF here # {} /\ Len(seg) > 1 /\ Len(seg) < 60
              THEN <<First30(seg)>> ELSE <<>>) \o LeftToRightLabels(line, p + 1)

\* the checkbox labels of a markup, top to bottom and left to right
RECURSIVE MarkupOrderLabels(_, _)
MarkupOrderLabels(lines, j) ==
    IF j > Len(lines) THEN <<>>
    ELSE (IF SkippedLine(lines[j]) THEN <<>>
          ELSE LeftToRightLabels(Strip(lines[j]), 1))
            \o MarkupOrderLabels(lines, j + 1)

\* C8, first part: every Checkbox candidate is matched before any Text
\* candidate, so no Text candidate is matched while a Checkbox candidate is
\* still to come, and all OCR checkbox descriptors precede all OCR text
\* descriptors in the list handed to the deduplicator.
C8_CheckboxesFirst ==
    pc = "ocr_loop" =>
        /\ \A a, b \in 1..Len(form_fields) :
              a < b => ~(form_fields[a].type = "text"
                         /\ form_fields[b].type = "checkbox")
        /\ \A a, b \in 1..Len(fields) :
              a < b => ~(fields[a].type = "text" /\ fields[b].type = "checkbox")

\* C8, second part: within the Checkbox kind the candidates are matched in
\* the order they appear in the markup, top to bottom across lines and left
\* to right within a line, also when a line mixes different glyphs.
C8_MarkupOrder ==
    pc = "ocr_loop" =>
        CheckboxLabels(form_fields)
            = MarkupOrderLabels(SplitOn(Replace(args.page_markdown, "|", "\n"),
                                        <<"\n">>), 1)

\* C8: in the OCR-assisted pipeline every Checkbox candidate is matched
\* before any Text candidate, and within each kind candidates are matched in
\* markup order (top to bottom, left to right within a line, also when a line
\* mixes different checkbox glyphs); all OCR checkbox descriptors precede all
\* OCR text descriptors in the list handed to the deduplicator.
C8_MatchOrder == C8_CheckboxesFirst /\ C8_MarkupOrder

\* the positions that bound the width of a text field matched at idx: the
\* others on its visual line whose left edge is more than 5 right of its
\* right edge
RightNeighbours(idx, ps) ==
    {j \in 1..Len(ps) :
        /\ j # idx
        /\ Abs(ps[j].rect.y0 - ps[idx].rect.y0) < 5
        /\ ps[j].rect.x0 > ps[idx].rect.x1 + 5}

MinOf(S) == CHOOSE a \in S : \A b \in S : a <= b

\* the last iteration matched a Text candidate: its descriptor is the last
\* of fields, it starts 2 right of the matched position, and its right edge
\* is Bound clamped to [start + 20, start + 200]
TextFieldFromBound(Bound(_, _, _)) ==
    (pc = "ocr_loop" /\ last.type = "text" /\ last.idx # 0) =>
        LET tp == args.ocr_positions[last.idx]
            start == tp.rect.x1 + 2
            bound == Bound(last.idx, args.ocr_positions, args.page_width)
            right == IF bound < start + 20 THEN start + 20
                     ELSE IF bound > start + 200 THEN start + 200 ELSE bound
        IN  /\ last.idx \in used_positions
            /\ Len(fields) = last.nfields_before + 1
            /\ fields[Len(fields)] =
                  Field("text", Rect(start, tp.rect.y0, right, tp.rect.y1))
            /\ right - start >= 20
            /\ right - start <= 200

\* C9 as stated: the upper bound is the minimum, over the other positions on
\* the same visual line to the right of the matched one, of their left edge
\* minus 2, or page width minus 20 when there is none.
C9_BoundFromNeighbours ==
    TextFieldFromBound(
        LAMBDA idx, ps, pw :
            IF RightNeighbours(idx, ps) = {} THEN pw - 20
            ELSE MinOf({ps[j].rect.x0 - 2 : j \in RightNeighbours(idx, ps)}))

\* C9, amended: the field starts 2 right of the matched position's right
\* edge; its upper bound is the minimum of page width minus 20 and of the
\* left edge minus 2 of every other position (used or not) whose top is less
\* than 5 from the matched one's and whose left edge is more than 5 right of
\* its right edge; the emitted right edge is that bound clamped to
\* [start + 20, start + 200], so the width is between 20 and 200; a
\* descriptor is always emitted and the matched index is marked used.
C9_BoundWithinPage ==
    TextFieldFromBound(
        LAMBDA idx, ps, pw :
            MinOf({pw - 20} \cup {ps[j].rect.x0 - 2 : j \in RightNeighbours(idx, ps)}))

\* a Text candidate was matched whose only right neighbour lies beyond page
\* width minus 20
C9_Witness ==
    /\ pc = "ocr_loop"
    /\ last.type = "text"
    /\ last.idx # 0
    /\ RightNeighbours(last.idx, args.ocr_positions) # {}
    /\ \A j \in RightNeighbours(last.idx, args.ocr_positions) :
          args.ocr_positions[j].rect.x0 - 2 > args.page_width - 20
    /\ Width(fields[Len(fields)].rect) > 20
    /\ Width(fields[Len(fields)].rect) < 200

(***************************************************************************)
(* The native-text locators and detect_fields, lines 204-276.  A page is a *)
(* record of what the document library and the local OCR engine return for *)
(* it: text_blocks (the number of native text blocks), checkbox_locations  *)
(* (the hits of the glyph searches, in order), underscores (the hits of    *)
(* search_for("___")), label_lines (per native text line its top and, for  *)
(* each label the pattern of line 235 finds in it, the hits of the search  *)
(* for that label), width, and ocr_positions (_ocr_page_positions).        *)
(***************************************************************************)
\* lines 204-209 and 253-254
CheckboxFields(page) ==
    [j \in 1..Len(page.checkbox_locations) |->
        Field("checkbox", page.checkbox_locations[j])]

\* lines 236-242: the hits of one label, hit j on, up to the break
RECURSIVE LabelHitFields(_, _, _, _)
LabelHitFields(hits, j, top, pw) ==
    IF j > Len(hits) THEN <<>>
    ELSE LET li == hits[j]
             fx0 == li.x1 + 2
             fx1 == Min(fx0 + 150, pw - 20)
         IN  IF Abs(li.y0 - top) < 5
             THEN (IF fx1 - fx0 > 20
                   THEN <<Field("text", Rect(fx0, li.y0, fx1, li.y1))>>
                   ELSE <<>>)
             ELSE LabelHitFields(hits, j + 1, top, pw)

\* lines 235-242: the labels of one line, label j on
RECURSIVE LineLabelFields(_, _, _)
LineLabelFields(line, j, pw) ==
    IF j > Len(line.labels) THEN <<>>
    ELSE LabelHitFields(line.labels[j], 1, line.top, pw)
            \o LineLabelFields(line, j + 1, pw)

\* lines 228-243, line j on
RECURSIVE LabelFieldsFrom(_, _)
LabelFieldsFrom(page, j) ==
    IF j > Len(page.label_lines) THEN <<>>
    ELSE LineLabelFields(page.label_lines[j], 1, page.width)
            \o LabelFieldsFrom(page, j + 1)

FindLabelFields(page) == LabelFieldsFrom(page, 1)

\* lines 260-264: the markup of the first remote page with this index
RECURSIVE PageMarkdown(_, _, _)
PageMarkdown(mp, j, page_num) ==
    IF j > Len(mp) THEN <<>>
    ELSE IF mp[j].index = page_num THEN mp[j].markdown
    ELSE PageMarkdown(mp, j + 1, page_num)

\* a plausible slip: the label locator runs whatever the merger returned
RunLabelLocatorAlways(uf) == TRUE

\* line 257
RunLabelLocator(uf) == uf = <<>>

\* lines 252-266: the candidates of a page and the locators run for them
DetectCandidates(page, page_num, mp) ==
    IF page.text_blocks > 0
    THEN LET uf == FindUnderscoreFields(page.underscores) IN
         IF RunLabelLocator(uf)
         THEN [fields |-> CheckboxFields(page) \o uf \o FindLabelFields(page),
               ran |-> {"checkbox", "underscore", "label"}]
         ELSE [fields |-> CheckboxFields(page) \o uf,
               ran |-> {"checkbox", "underscore"}]
    ELSE IF mp # None
    THEN LET page_md == PageMarkdown(mp, 1, page_num) IN
         IF page_md # <<>>
         THEN [fields |-> DetectFieldsOcr(page_md, page.ocr_positions, page.width),
               ran |-> {"ocr"}]
         ELSE [fields |-> <<>>, ran |-> {}]
    ELSE [fields |-> <<>>, ran |-> {}]

\* lines 247-276
DetectFields(page, page_num, mp) ==
    LET c == DetectCandidates(page, page_num, mp)
    IN  [fields |-> Dedup(c.fields), ran |-> c.ran]

(***************************************************************************)
(* convert, lines 278-310, on documents of up to MaxPages pages.           *)
(***************************************************************************)
Page(tb, cbs, us, lines, w, ps) ==
    [text_blocks |-> tb, checkbox_locations |-> cbs, underscores |-> us,
     label_lines |-> lines, width |-> w, ocr_positions |-> ps]

LabelLine(top, labels) == [top |-> top, labels |-> labels]

Pages ==
    { \* native text: a checkbox glyph, "Name: ____ ____"
      Page(1, <<Rect(5, 30, 15, 40)>>,
           <<Rect(50, 10, 70, 12), Rect(72, 10, 90, 12)>>,
           <<LabelLine(8, << <<Rect(10, 8, 40, 18)>> >>)>>, 300, <<>>),
      \* native text: two labels, one of them also found on another line
      Page(2, <<>>, <<>>,
           <<LabelLine(8, << <<Rect(10, 60, 40, 70), Rect(10, 8, 40, 18)>>,
                             <<Rect(100, 9, 140, 19)>> >>)>>, 300, <<>>),
      \* native text without glyphs, underscores or labels
      Page(1, <<>>, <<>>, <<>>, 300, <<>>),
      \* scanned: "Yes" and "No"
      Page(0, <<>>, <<>>, <<>>, 300,
           <<Position(S_Yes, Rect(43, 10, 48, 20)),
             Position(S_No, Rect(70, 10, 82, 20))>>),
      \* scanned: "Name:"
      Page(0, <<>>, <<>>, <<>>, 100,
           <<Position(S_NameColon, Rect(10, 10, 40, 20))>>) }

MistralPage(index, markdown) == [index |-> index, markdown |-> markdown]

M_YesNo == G_Ballot \o <<" ">> \o S_Yes \o <<" ">> \o G_Ballot \o <<" ">> \o S_No

\* what ocr_response.pages may hold
MistralResponses ==
    { << MistralPage(0, M_YesNo), MistralPage(1, S_NameColon) >>,
      << MistralPage(0, <<>>), MistralPage(1, M_YesNo) >>,
      << MistralPage(1, S_NameColon) >>,
      << MistralPage(0, <<>>), MistralPage(0, S_NameColon) >> }

\* line 285
NeedsOcr(doc) == \E j \in 1..Len(doc) : doc[j].text_blocks = 0

InitConvert ==
    /\ pc = "convert"
    /\ args \in SeqsUpTo(Pages, MaxPages) \ {<<>>}
    /\ ret = <<>>
    /\ OcrIdle
    /\ ConvertIdle

\* lines 284-287
CheckNeedsOcr ==
    /\ pc = "convert"
    /\ pc' = IF NeedsOcr(args) THEN "mistral_ocr" ELSE "pages"
    /\ UNCHANGED <<args, ret, OcrVars, ConvertVars>>

\* lines 289-290: the remote call returns
MistralOcrReturns ==
    /\ pc = "mistral_ocr"
    /\ \E r \in MistralResponses : mistral_pages' = r
    /\ calls' = Append(calls, [pages_done |-> i, ok |-> TRUE])
    /\ pc' = "pages"
    /\ UNCHANGED <<args, ret, OcrVars, i, total_fields, ran>>

\* a plausible slip: the exception is not caught
MistralOcrFailsAborting ==
    /\ pc = "mistral_ocr"
    /\ calls' = Append(calls, [pages_done |-> i, ok |-> FALSE])
    /\ pc' = "aborted"
    /\ UNCHANGED <<args, ret, OcrVars, i, mistral_pages, total_fields, ran>>

\* lines 289-292: the remote call raises, the exception is reported
MistralOcrFails ==
    /\ pc = "mistral_ocr"
    /\ calls' = Append(calls, [pages_done |-> i, ok |-> FALSE])
    /\ pc' = "pages"
    /\ UNCHANGED <<args, ret, OcrVars, i, mistral_pages, total_fields, ran>>

\* lines 295-306: one page; ret collects the descriptors turned into widgets
ProcessPage ==
    /\ pc = "pages"
    /\ i < Len(args)
    /\ \E d \in {DetectFields(args[i + 1], i, mistral_pages)} :
         /\ ret' = Append(ret, d.fields)
         /\ ran' = Append(ran, d.ran)
         /\ total_fields' = total_fields + Len(d.fields)
    /\ i' = i + 1
    /\ UNCHANGED <<pc, args, OcrVars, mistral_pages, calls>>

\* lines 308-310
SaveAndReturn ==
    /\ pc = "pages"
    /\ i = Len(args)
    /\ pc' = "done"
    /\ UNCHANGED <<args, ret, OcrVars, ConvertVars>>

NextConvert ==
    \/ CheckNeedsOcr
    \/ MistralOcrReturns
    \/ MistralOcrFails
    \/ ProcessPage
    \/ SaveAndReturn

SpecConvert == InitConvert /\ [][NextConvert]_vars

Processing == pc \in {"pages", "done"}

\* C3: detect_fields selects exactly one pipeline per page.  A page with a
\* native text block gets the checkbox locator and the underscore merger,
\* and the label locator only when the merger returned no fields, never the
\* OCR pipeline; a page without native text blocks gets the OCR pipeline only
\* when remote OCR data is available and holds non-empty markup for its
\* index; in every other case the page yields no fields.
C3_OnePipeline ==
    Processing =>
        \A j \in 1..Len(ran) :
            LET page == args[j] IN
            /\ page.text_blocks > 0 =>
                  /\ {"checkbox", "underscore"} \subseteq ran[j]
                  /\ "ocr" \notin ran[j]
                  /\ "label" \in ran[j] <=>
                        FindUnderscoreFields(page.underscores) = <<>>
                  /\ "label" \notin ran[j] =>
                        Len(SelectSeq(ret[j], LAMBDA f : f.type = "text"))
                           <= Len(FindUnderscoreFields(page.underscores))
            /\ page.text_blocks = 0 =>
                  /\ ran[j] \subseteq {"ocr"}
                  /\ "ocr" \in ran[j] =>
                        /\ mistral_pages # None
                        /\ \E m \in 1..Len(mistral_pages) :
                              /\ mistral_pages[m].index = j - 1
                              /\ mistral_pages[m].markdown # <<>>
            /\ ran[j] = {} => ret[j] = <<>>

\* a document whose first page has underscores and a label (the label
\* locator was not run) and whose second page is scanned and got the OCR
\* pipeline
C3_Witness ==
    /\ pc = "done"
    /\ Len(args) = 2
    /\ args[1].text_blocks > 0
    /\ args[1].label_lines # <<>>
    /\ ran[1] = {"checkbox", "underscore"}
    /\ Len(ret[1]) = 2
    /\ args[2].text_blocks = 0
    /\ ran[2] = {"ocr"}
    /\ ret[2] # <<>>

RECURSIVE SumLen(_)
SumLen(ss) == IF ss = <<>> THEN 0 ELSE Len(Head(ss)) + SumLen(Tail(ss))

\* C4: in one call of convert the remote OCR service is invoked at most
\* once, before any page is processed, and only when some page has no native
\* text block; if the call fails convert does not abort but processes every
\* page in document order and returns a count, every page without native
\* text yields no fields, every page with native text yields what it would
\* have yielded had the call succeeded, and the call is never retried.
C4_SingleOcrAttempt ==
    /\ Len(calls) <= 1
    /\ \A c \in 1..Len(calls) : calls[c].pages_done = 0 /\ NeedsOcr(args)
    /\ pc \in {"pages", "done", "aborted"} => Len(calls) = 1 \/ ~NeedsOcr(args)
    /\ (calls # <<>> /\ ~calls[1].ok) =>
          /\ Processing
          /\ mistral_pages = None
          /\ pc = "pages" => ENABLED (ProcessPage \/ SaveAndReturn)
          /\ \A j \in 1..Len(ret) :
                /\ args[j].text_blocks = 0 => ret[j] = <<>>
                /\ args[j].text_blocks > 0 =>
                      \A r \in MistralResponses :
                          ret[j] = DetectFields(args[j], j - 1, r).fields
    /\ Processing => Len(ret) = i /\ total_fields = SumLen(ret)
    /\ pc = "done" => Len(ret) = Len(args)

\* the call failed and convert returned: a native-text page yielded fields
\* and a scanned page none
C4_Witness ==
    /\ pc = "done"
    /\ calls # <<>>
    /\ ~calls[1].ok
    /\ \E a, b \in 1..Len(args) :
          /\ args[a].text_blocks > 0
          /\ ret[a] # <<>>
          /\ args[b].text_blocks = 0
          /\ args[b].ocr_positions # <<>>
    /\ total_fields > 0

=============================================================================
